---- MODULE Spec2Model ----
(***************************************************************************)
(* Runtime configuration loader (ConfigService), the multi-environment     *)
(* deployment scripts (deploy.sh, deploy.mjs) and the ECS cleanup script    *)
(* (cleanup-ecs.sh) of angular-release-deployment-frontend.                *)
(*                                                                         *)
(* SpecConfig : one ConfigService instance, its loadConfig() calls, the    *)
(*              bootstrap of AppModule gated on the first of them, and the *)
(*              accessor calls made by application code.                   *)
(* Spec       : deploy invocations run from one checkout, sharing the dist *)
(*              tree and the S3 buckets.                                   *)
(* SpecFair   : Spec with every started invocation running to its end.     *)
(* SpecCleanup: one run of cleanup-ecs.sh, from the confirmation prompt to *)
(*              the last delete phase.                                     *)
(***************************************************************************)
EXTENDS Integers, Sequences, FiniteSets, TLC

VARIABLES
  config,      \* ConfigService.config: the held document, or NoConfig (null)
  loadStatus,  \* promise of the latest loadConfig(): none, pending, resolved, rejected
  loads,       \* number of loadConfig() calls so far
  fetches,     \* number of http.get(CONFIG_PATH) requests issued so far
  response,    \* what http.get() produced for the latest loadConfig()
  rejection,   \* the Error the latest loadConfig() rejected with, or NoError
  logged,      \* the error handed to console.error by the latest loadConfig()
  lastCall,    \* outcome of the accessor call made by the last step, or NoCall
  app          \* bootstrap of AppModule: its phase, and the signals of the App component

VARIABLES
  envAws,      \* operator configuration file .env.aws of the checkout
  srcConfigs,  \* configuration source files present under src/assets/config
  dist,        \* the local artifact tree dist/angular-release-deployment-frontend/browser
  bucket,      \* contents of every S3 bucket, by bucket name
  run,         \* the deploy invocations: script, argument, position, outcome
  overlap      \* whether two invocations have been in progress at the same time

VARIABLES
  cleanup      \* the run of cleanup-ecs.sh: answer read, position, delete calls, outcome

depVars == <<envAws, srcConfigs, dist, bucket, run, overlap>>

cluVars == <<cleanup>>

cfgVars == <<config, loadStatus, loads, fetches, response, rejection, logged, lastCall, app>>

\* ------------------------------------------------------------------------
\* Bounds
\* ------------------------------------------------------------------------
MaxLoads == 2     \* loadConfig() calls on one ConfigService instance
MaxDefects == 1   \* fields of a fetched document that deviate from a valid one
MaxFailures == 2  \* delete calls of one cleanup run that fail

\* ------------------------------------------------------------------------
\* JSON values.  A scalar is [t |-> JavaScript type, v |-> payload]; URL
\* strings are sequences of characters so that URL parsing can be computed.
\* ------------------------------------------------------------------------
Undef == [t |-> "undefined", v |-> ""]
Null == [t |-> "null", v |-> ""]
JBool(b) == [t |-> "boolean", v |-> IF b THEN "true" ELSE "false"]
JStr(s) == [t |-> "string", v |-> s]

UndefC == [t |-> "undefined", v |-> <<>>]
NullC == [t |-> "null", v |-> <<>>]
JChars(cs) == [t |-> "string", v |-> cs]

UrlApi == <<"h","t","t","p","s",":","/","/","a","p","i",".","e","x","a","m","p","l","e",".","c","o","m">>
UrlAuth == <<"h","t","t","p","s",":","/","/","a","u","t","h",".","e","x","a","m","p","l","e",".","c","o","m">>
UrlNot == <<"n","o","t"," ","a"," ","u","r","l">>
UrlRelative == <<"/","a","p","i">>

FlagsFalse == [enableNewCheckout |-> JBool(FALSE), enableAnalytics |-> JBool(FALSE), enableLogging |-> JBool(FALSE), extraFlag |-> Undef]
FlagsString == [FlagsFalse EXCEPT !.enableAnalytics = JStr("false")]
FlagsExtra == [FlagsFalse EXCEPT !.extraFlag = JBool(TRUE)]
NoFlags == [enableNewCheckout |-> Undef, enableAnalytics |-> Undef, enableLogging |-> Undef, extraFlag |-> Undef]

UndefF == [t |-> "undefined", flags |-> NoFlags]
NullF == [t |-> "null", flags |-> NoFlags]
JObj(f) == [t |-> "object", flags |-> f]

\* ------------------------------------------------------------------------
\* Configuration documents: the body http.get() delivers.
\* ------------------------------------------------------------------------
RequiredFields == <<"name", "production", "apiUrl", "authUrl", "features">>

BaseDoc ==
  [kind |-> "object", name |-> JStr("development"), production |-> JBool(FALSE),
   apiUrl |-> JChars(UrlApi), authUrl |-> JChars(UrlAuth),
   features |-> JObj(FlagsFalse), buildTag |-> Undef]

\* the JSON document `null`
NullBody ==
  [kind |-> "null", name |-> Undef, production |-> Undef, apiUrl |-> UndefC,
   authUrl |-> UndefC, features |-> UndefF, buildTag |-> Undef]

\* ConfigService.config before any assignment
NoConfig == NullBody

\* type EnvironmentType
EnvironmentType == {"development", "qa", "staging", "production"}

NameVals == {Undef, Null, JStr("development"), JStr("production"), JStr("test")}
ProdVals == {Undef, Null, JBool(TRUE), JBool(FALSE), JStr("false")}
ApiVals == {UndefC, NullC, JChars(UrlApi), JChars(UrlNot), JChars(UrlRelative)}
AuthVals == {UndefC, NullC, JChars(UrlAuth), JChars(UrlNot)}
FeatVals == {UndefF, NullF, JObj(FlagsFalse), JObj(FlagsString), JObj(FlagsExtra)}
TagVals == {Undef, JStr("r42")}

DocFields == {"name", "production", "apiUrl", "authUrl", "features", "buildTag"}

Defects(d) == Cardinality({f \in DocFields : d[f] # BaseDoc[f]})

ObjectDocs ==
  {d \in [kind : {"object"}, name : NameVals, production : ProdVals, apiUrl : ApiVals,
          authUrl : AuthVals, features : FeatVals, buildTag : TagVals] :
     Defects(d) <= MaxDefects}

\* every body the fetch can deliver, as an enumerated set
Bodies == {b : b \in ObjectDocs \cup {NullBody}}

\* ------------------------------------------------------------------------
\* new URL(url) without a base, after the WHATWG URL parser: a scheme
\* (alpha, then alphanumerics, "+", "-", ".") ended by ":" is required; a
\* special scheme other than file needs a non-empty host without forbidden
\* code points and, if present, a numeric port.
\* ------------------------------------------------------------------------
Alpha == {"a","b","c","d","e","f","g","h","i","j","k","l","m","n","o","p","q","r","s","t","u","v","w","x","y","z"}
Digit == {"0","1","2","3","4","5","6","7","8","9"}
SchemeChars == Alpha \cup Digit \cup {"+", "-", "."}
AuthorityEnd == {"/", "\\", "?", "#"}
ForbiddenHost == {" ", "<", ">", "%", "^", "|", "[", "]"}
SpecialSchemes == {<<"h","t","t","p">>, <<"h","t","t","p","s">>, <<"f","t","p">>, <<"w","s">>, <<"w","s","s">>}

RECURSIVE TrimLeft(_)
TrimLeft(cs) == IF cs # <<>> /\ Head(cs) = " " THEN TrimLeft(Tail(cs)) ELSE cs

RECURSIVE TrimRight(_)
TrimRight(cs) ==
  IF cs # <<>> /\ cs[Len(cs)] = " " THEN TrimRight(SubSeq(cs, 1, Len(cs) - 1)) ELSE cs

\* index of the first element of cs in stop, or Len(cs) + 1
RECURSIVE FirstIn(_, _, _)
FirstIn(cs, stop, i) ==
  IF i > Len(cs) THEN i
  ELSE IF cs[i] \in stop THEN i ELSE FirstIn(cs, stop, i + 1)

RECURSIVE SkipSlashes(_)
SkipSlashes(cs) ==
  IF cs # <<>> /\ Head(cs) \in {"/", "\\"} THEN SkipSlashes(Tail(cs)) ELSE cs

ParsesAsUrl(raw) ==
  LET cs == TrimRight(TrimLeft(raw))
      colon == FirstIn(cs, {":"}, 1)
  IN /\ cs # <<>>
     /\ cs[1] \in Alpha
     /\ colon <= Len(cs)
     /\ \A j \in 1..(colon - 1) : cs[j] \in SchemeChars
     /\ LET scheme == SubSeq(cs, 1, colon - 1)
            rest == SubSeq(cs, colon + 1, Len(cs))
        IN  scheme \in SpecialSchemes =>
              LET after == SkipSlashes(rest)
                  authority == SubSeq(after, 1, FirstIn(after, AuthorityEnd, 1) - 1)
                  hostEnd == FirstIn(authority, {":"}, 1)
                  host == SubSeq(authority, 1, hostEnd - 1)
                  port == SubSeq(authority, hostEnd + 1, Len(authority))
              IN /\ host # <<>>
                 /\ \A j \in 1..Len(host) : host[j] \notin ForbiddenHost
                 /\ \A j \in 1..Len(port) : port[j] \in Digit

\* a URL check that takes any string
isValidUrlAnyString(url) == url.t = "string"

\* ConfigService.isValidUrl: new URL(url) converts its argument to a string
\* first; undefined, null and booleans convert to words without a scheme.
isValidUrl(url) == url.t = "string" /\ ParsesAsUrl(url.v)

\* ------------------------------------------------------------------------
\* ConfigService.validateConfig: the error it throws, or NoError.
\* ------------------------------------------------------------------------
NoError == [msg |-> "", field |-> "", value |-> <<>>]
MissingField(f) == [msg |-> "Missing required configuration field: ", field |-> f, value |-> <<>>]
InvalidApiUrl(u) == [msg |-> "Invalid API URL: ", field |-> "", value |-> u.v]
InvalidAuthUrl(u) == [msg |-> "Invalid Auth URL: ", field |-> "", value |-> u.v]
\* config[field] on null: TypeError, cannot read properties of null
NullDeref(f) == [msg |-> "TypeError: Cannot read properties of null (reading ", field |-> f, value |-> <<>>]
FetchFailed == [msg |-> "HttpErrorResponse: Http failure response", field |-> "", value |-> <<>>]
ParseFailed == [msg |-> "HttpErrorResponse: Http failure during parsing", field |-> "", value |-> <<>>]

\* a required-field test that overlooks null
IsUndefined(val) == val.t = "undefined"

\* config[field] === undefined || config[field] === null
IsAbsent(val) == val.t = "undefined" \/ val.t = "null"

RECURSIVE FirstMissing(_, _)
FirstMissing(c, i) ==
  IF i > Len(RequiredFields) THEN ""
  ELSE IF IsAbsent(c[RequiredFields[i]]) THEN RequiredFields[i]
       ELSE FirstMissing(c, i + 1)

\* a validation that takes only the fields EnvironmentConfig declares
validateConfigClosed(c) ==
  IF c.kind = "null" THEN NullDeref(RequiredFields[1])
  ELSE IF FirstMissing(c, 1) # "" THEN MissingField(FirstMissing(c, 1))
  ELSE IF ~isValidUrl(c.apiUrl) THEN InvalidApiUrl(c.apiUrl)
  ELSE IF ~isValidUrl(c.authUrl) THEN InvalidAuthUrl(c.authUrl)
  ELSE IF c.buildTag.t # "undefined" THEN MissingField("buildTag")
  ELSE IF c.features.flags.extraFlag.t # "undefined" THEN MissingField("extraFlag")
  ELSE NoError

\* a validation that holds production against name
validateConfigCrossChecked(c) ==
  IF c.kind = "null" THEN NullDeref(RequiredFields[1])
  ELSE IF FirstMissing(c, 1) # "" THEN MissingField(FirstMissing(c, 1))
  ELSE IF ~isValidUrl(c.apiUrl) THEN InvalidApiUrl(c.apiUrl)
  ELSE IF ~isValidUrl(c.authUrl) THEN InvalidAuthUrl(c.authUrl)
  ELSE IF (c.name = JStr("production")) # (c.production = JBool(TRUE)) THEN MissingField("production")
  ELSE NoError

validateConfig(c) ==
  IF c.kind = "null" THEN NullDeref(RequiredFields[1])
  ELSE IF FirstMissing(c, 1) # "" THEN MissingField(FirstMissing(c, 1))
  ELSE IF ~isValidUrl(c.apiUrl) THEN InvalidApiUrl(c.apiUrl)
  ELSE IF ~isValidUrl(c.authUrl) THEN InvalidAuthUrl(c.authUrl)
  ELSE NoError

\* validateConfig on every body the fetch can deliver
Validation == [b \in Bodies |-> validateConfig(b)]

\* ------------------------------------------------------------------------
\* ConfigService operations
\* ------------------------------------------------------------------------
\* a loader that asks for the document one directory up
CONFIG_PATH_OutsideAssets == <<"", "config", "environment.json">>

\* '/assets/config/environment.json', split at "/"
CONFIG_PATH == <<"", "assets", "config", "environment.json">>

LoadFailed == [msg |-> "Failed to load application configuration", field |-> "", value |-> <<>>]
NotLoadedMessage == "Configuration not loaded. APP_INITIALIZER may have failed."

NoResponse == [kind |-> "none", body |-> NullBody]
ErrorResponse(e) == [kind |-> e, body |-> NullBody]
BodyResponse(b) == [kind |-> "body", body |-> b]

\* nothing was returned
NoValue == [t |-> "none"]

NoCall == [op |-> "", threw |-> FALSE, msg |-> "", cfg |-> NoConfig, value |-> NoValue]

Accessors == {"apiUrl", "authUrl", "isProduction", "environmentName", "features"}

\* !this.config
Falsy(c) == c.kind = "null"

\* getConfig(): the call record of operation op, which goes through getConfig()
getConfig(op) ==
  IF Falsy(config)
    THEN [op |-> op, threw |-> TRUE, msg |-> NotLoadedMessage, cfg |-> NoConfig, value |-> NoValue]
    ELSE [op |-> op, threw |-> FALSE, msg |-> "", cfg |-> config, value |-> NoValue]

\* accessors that return their neighbour's field
AccessorFieldSwapped(op) ==
  CASE op = "apiUrl" -> "authUrl"
    [] op = "authUrl" -> "apiUrl"
    [] op = "isProduction" -> "production"
    [] op = "environmentName" -> "name"
    [] op = "features" -> "features"

\* the field of the configuration an accessor returns
AccessorField(op) ==
  CASE op = "apiUrl" -> "apiUrl"
    [] op = "authUrl" -> "authUrl"
    [] op = "isProduction" -> "production"
    [] op = "environmentName" -> "name"
    [] op = "features" -> "features"

\* a field accessor: this.getConfig().<field>
Accessor(op) ==
  LET call == getConfig(op)
  IN IF call.threw THEN call ELSE [call EXCEPT !.value = call.cfg[AccessorField(op)]]

\* AppModule is being bootstrapped and its APP_INITIALIZER has not settled; the
\* signals of App have their initial values
NoApp ==
  [phase |-> "initializing", environment |-> JStr(""), apiUrl |-> JChars(<<>>),
   isProduction |-> JBool(FALSE)]

\* the APP_INITIALIZER promise is that of the first loadConfig(): when it
\* settles, the bootstrap goes on to create App or fails
Initialized(a, status) ==
  IF a.phase = "initializing"
    THEN [a EXCEPT !.phase = IF status = "resolved" THEN "initialized" ELSE "failed"]
    ELSE a

CfgInit ==
  /\ config = NoConfig
  /\ loadStatus = "none"
  /\ loads = 0
  /\ fetches = 0
  /\ app = NoApp
  /\ response = NoResponse
  /\ rejection = NoError
  /\ logged = NoError
  /\ lastCall = NoCall

\* loadConfig() is called: the fetch of CONFIG_PATH is issued
LoadConfig ==
  /\ loadStatus # "pending"
  /\ loads < MaxLoads
  /\ app.phase # "initialized"
  /\ loads' = loads + 1
  /\ fetches' = fetches + 1
  /\ loadStatus' = "pending"
  /\ response' = NoResponse
  /\ rejection' = NoError
  /\ logged' = NoError
  /\ lastCall' = NoCall
  /\ UNCHANGED <<config, app>>
  /\ UNCHANGED <<depVars, cluVars>>

\* a failed fetch answered by installing the development document
FetchFailsWithFallback ==
  /\ loadStatus = "pending"
  /\ \E e \in {FetchFailed, ParseFailed} :
       /\ response' = ErrorResponse(e.msg)
       /\ logged' = e
  /\ rejection' = LoadFailed
  /\ loadStatus' = "rejected"
  /\ app' = Initialized(app, "rejected")
  /\ lastCall' = NoCall
  /\ config' = BaseDoc
  /\ UNCHANGED <<loads, fetches>>
  /\ UNCHANGED <<depVars, cluVars>>

\* a loader that gives up on a fetch still in flight: it rejects, and logs a
\* timeout, though nothing has come back
FetchFailsOrTimesOut ==
  /\ loadStatus = "pending"
  /\ \/ \E e \in {FetchFailed, ParseFailed} :
          /\ response' = ErrorResponse(e.msg)
          /\ logged' = e
     \/ /\ response' = NoResponse
        /\ logged' = [msg |-> "TimeoutError: Timeout has occurred", field |-> "", value |-> <<>>]
  /\ rejection' = LoadFailed
  /\ loadStatus' = "rejected"
  /\ app' = Initialized(app, "rejected")
  /\ lastCall' = NoCall
  /\ UNCHANGED <<config, loads, fetches>>
  /\ UNCHANGED <<depVars, cluVars>>

\* the awaited http.get() throws: network error or unparsable body
FetchFails ==
  /\ loadStatus = "pending"
  /\ \E e \in {FetchFailed, ParseFailed} :
       /\ response' = ErrorResponse(e.msg)
       /\ logged' = e
  /\ rejection' = LoadFailed
  /\ loadStatus' = "rejected"
  /\ app' = Initialized(app, "rejected")
  /\ lastCall' = NoCall
  /\ UNCHANGED <<config, loads, fetches>>
  /\ UNCHANGED <<depVars, cluVars>>

\* the awaited http.get() delivers a body: it is assigned to this.config,
\* then validated; a validation error is logged and replaced by a generic one
FetchDelivers ==
  /\ loadStatus = "pending"
  /\ \E body \in Bodies :
       LET thrown == Validation[body]
       IN /\ response' = BodyResponse(body)
          /\ config' = body
          /\ logged' = thrown
          /\ IF thrown = NoError
               THEN loadStatus' = "resolved" /\ rejection' = NoError
               ELSE loadStatus' = "rejected" /\ rejection' = LoadFailed
          /\ app' = Initialized(app, IF thrown = NoError THEN "resolved" ELSE "rejected")
  /\ lastCall' = NoCall
  /\ UNCHANGED <<loads, fetches>>
  /\ UNCHANGED <<depVars, cluVars>>

\* application code calls getConfig()
CallGetConfig ==
  /\ lastCall' = getConfig("getConfig")
  /\ UNCHANGED <<config, loadStatus, loads, fetches, response, rejection, logged, app>>
  /\ UNCHANGED <<depVars, cluVars>>

\* application code reads one of the field accessors
CallAccessor ==
  /\ \E op \in Accessors : lastCall' = Accessor(op)
  /\ UNCHANGED <<config, loadStatus, loads, fetches, response, rejection, logged, app>>
  /\ UNCHANGED <<depVars, cluVars>>

\* an App constructor that reads the configuration and sets no signal
ConstructedSignalsUnset(a) ==
  LET call == getConfig("getConfig")
  IN IF call.threw
       THEN [a EXCEPT !.phase = "failed"]
       ELSE [a EXCEPT !.phase = "running"]

\* the App constructor: getConfig(), then the three signals are set from it
Constructed(a) ==
  LET call == getConfig("getConfig")
  IN IF call.threw
       THEN [a EXCEPT !.phase = "failed"]
       ELSE [phase |-> "running", environment |-> call.cfg.name,
             apiUrl |-> call.cfg.apiUrl, isProduction |-> call.cfg.production]

\* a bootstrap that creates App without waiting for the initializer
ConstructAppUngated ==
  /\ app.phase \in {"initializing", "initialized"}
  /\ lastCall' = getConfig("getConfig")
  /\ app' = Constructed(app)
  /\ UNCHANGED <<config, loadStatus, loads, fetches, response, rejection, logged>>
  /\ UNCHANGED <<depVars, cluVars>>

\* the APP_INITIALIZER promise has resolved: the bootstrap component App is
\* created, before any other application code runs
ConstructApp ==
  /\ app.phase = "initialized"
  /\ lastCall' = getConfig("getConfig")
  /\ app' = Constructed(app)
  /\ UNCHANGED <<config, loadStatus, loads, fetches, response, rejection, logged>>
  /\ UNCHANGED <<depVars, cluVars>>

\* ========================================================================
\* Deployment scripts: deploy.sh and deploy.mjs
\* ========================================================================
Invocations == {1, 2}
Scripts == {"sh", "mjs"}
ValidEnvironments == {"dev", "qa", "staging", "prod"}
\* "" is a missing argument; the long names are those of the configuration
\* documents, which the scripts do not take
EnvArgs == ValidEnvironments \cup {"", "staging-typo", "development", "production"}
UniqueIds == {"", "u1"}
DistributionIds == {"", "E1"}
\* exit statuses of a failing collaborator (npm, cp, aws)
FailStatus == {1, 255}

\* CONFIG_FILE / configFile
ConfigFile(env) ==
  IF env = "prod" THEN "environment.production.json"
  ELSE IF env = "dev" THEN "environment.dev.json"
  ELSE IF env = "qa" THEN "environment.qa.json"
  ELSE "environment.staging.json"

ConfigFiles == {ConfigFile(e) : e \in ValidEnvironments}

\* SOURCE_CONFIG / sourceConfig: deploy.sh names it relative to the checkout,
\* deploy.mjs joins it to the directory of the script
SourceConfig(script, env) ==
  (IF script = "mjs" THEN "/checkout/" ELSE "") \o "src/assets/config/" \o ConfigFile(env)

\* a bucket name that leaves the environment out
BucketNameShared(env, uid) == <<"angular-deploy", "dev", uid>>

\* BUCKET_NAME / bucketName
BucketName(env, uid) == <<"angular-deploy", env, uid>>

BucketNames == {BucketName(e, u) : e \in ValidEnvironments, u \in UniqueIds}

\* paths are sequences of segments
\* TARGET_CONFIG / targetConfig: the document Step 2 overwrites
TARGET_CONFIG ==
  <<"dist", "angular-release-deployment-frontend", "browser", "assets", "config", "environment.json">>
\* the directory Step 3 syncs to the root of the bucket
SyncRoot == <<"dist", "angular-release-deployment-frontend", "browser">>

\* a path below root, as seen from root; <<>> for a path that is not below it
RelativeTo(path, root) ==
  IF Len(path) > Len(root) /\ SubSeq(path, 1, Len(root)) = root
    THEN SubSeq(path, Len(root) + 1, Len(path))
    ELSE <<>>

\* file trees: path below the synced directory (= object key) -> content,
\* "" for a path that does not exist
ConfigPath == RelativeTo(TARGET_CONFIG, SyncRoot)
Paths == {<<"index.html">>, <<"main.js">>, ConfigPath, <<"old.js">>}
NoTree == [p \in Paths |-> ""]
\* what `npm run build -- --configuration=production` emits: the same files for
\* every environment, with the default configuration document
BuiltTree ==
  [p \in Paths |->
     IF p = <<"old.js">> THEN "" ELSE IF p = ConfigPath THEN "environment.json" ELSE "build"]
\* a build whose output depends on the environment it is made for
BuildOutputPerEnvironment(env) == [BuiltTree EXCEPT ![<<"main.js">>] = env]

\* the tree a successful Step 1 leaves: the build command has no reference to
\* the environment argument
BuildOutput(env) == BuiltTree

\* what a previous release left in a bucket
OldTree == [p \in Paths |-> IF p = <<"main.js">> THEN "" ELSE "previous"]

\* a sync without --delete: uploads only
MirrorNoDelete(tree, old) == [p \in Paths |-> IF tree[p] # "" THEN tree[p] ELSE old[p]]

\* the key of the object a bucket serves for a URL path: the path without its
\* leading "/"
ObjectKey(urlPath) ==
  IF urlPath # <<>> /\ Head(urlPath) = "" THEN Tail(urlPath) ELSE urlPath

\* what a browser that loaded the application from bucket b is given for
\* urlPath; "" when there is no such object
Served(b, urlPath) ==
  IF ObjectKey(urlPath) \in Paths THEN bucket[b][ObjectKey(urlPath)] ELSE ""

\* aws s3 sync <tree> s3://bucket --delete
Mirror(tree, old) == tree
\* a sync interrupted after its uploads and before its deletions
Overlay(tree, old) == [p \in Paths |-> IF tree[p] # "" THEN tree[p] ELSE old[p]]

\* an error message: its fixed text and the values it interpolates
NoMessage == [msg |-> "", args |-> {}]
Message(m, a) == [msg |-> m, args |-> a]

\* no invalidation has been asked of CloudFront
NoRequest == [distribution |-> "", paths |-> {}]

\* an invalidation of the entry document alone
InvalidationPathsIndexOnly == {<<"", "index.html">>}

\* --paths "/*": URL paths are split at "/", so "/*" is <<"", "*">>
InvalidationPaths == {<<"", "*">>}

IdleRun ==
  [script |-> "sh", env |-> "", pc |-> "IDLE", exit |-> -1, err |-> NoMessage,
   steps |-> <<>>, done |-> {}, inval |-> "none", bucketName |-> BucketName("", ""),
   request |-> NoRequest]

Active(r) == run[r].pc \notin {"IDLE", "DONE", "FAILED"}

Count(seq, x) == Cardinality({i \in 1..Len(seq) : seq[i] = x})

\* exit N / process.exit(N) with a message
Fail(r, status, message) ==
  [run[r] EXCEPT !.pc = "FAILED", !.exit = status, !.err = message]

\* a failing collaborator that is ignored: the script goes on
AbortIgnored(r, status, what) == run[r]

\* a collaborator failed: set -e ends deploy.sh with the collaborator's status;
\* deploy.mjs catches the exception, prints "Deployment failed!" and exits 1
Abort(r, status, what) ==
  IF run[r].script = "sh"
    THEN [run[r] EXCEPT !.pc = "FAILED", !.exit = status, !.err = NoMessage]
    ELSE [run[r] EXCEPT !.pc = "FAILED", !.exit = 1, !.err = Message("Deployment failed!", {what})]

\* a missing source document that is passed over: the tree keeps the document
\* the build emitted and the script goes on to publish it
ConfigNotFoundIgnored(r) == [run[r] EXCEPT !.pc = "PUBLISHING"]

\* the source document of the environment does not exist: deploy.sh prints
\* "Error: Config file not found: <SOURCE_CONFIG>" and exits 1; deploy.mjs throws
\* an Error with that message, which its catch block prints before exiting 1
ConfigNotFound(r) ==
  Fail(r, 1, Message("Config file not found", {SourceConfig(run[r].script, run[r].env)}))

DepInit ==
  /\ envAws \in {[present |-> FALSE, UNIQUE_ID |-> "", CLOUDFRONT_DISTRIBUTION_ID |-> ""]}
         \cup [present : {TRUE}, UNIQUE_ID : UniqueIds, CLOUDFRONT_DISTRIBUTION_ID : DistributionIds]
  /\ srcConfigs \in {ConfigFiles, ConfigFiles \ {ConfigFile("prod")}, ConfigFiles \ {ConfigFile("dev")}}
  /\ dist = NoTree
  /\ bucket = [b \in BucketNames |-> OldTree]
  /\ run = [r \in Invocations |-> IdleRun]
  /\ overlap = FALSE

\* deploy.sh lines 19-52: .env.aws is looked for before the argument is checked
ValidateSh(arg, aws) ==
  IF ~aws.present THEN Message(".env.aws file not found!", {})
  ELSE IF arg = "" THEN Message("No environment specified", {})
  ELSE IF arg \notin ValidEnvironments THEN Message("Invalid environment", {arg})
  ELSE NoMessage

\* an argument check without the membership test
ValidateMjsAnyArgument(arg, aws) ==
  IF arg = "" THEN Message("No environment specified", {})
  ELSE IF ~aws.present THEN Message(".env.aws file not found!", {})
  ELSE IF aws.UNIQUE_ID = "" THEN Message("UNIQUE_ID not found in .env.aws", {})
  ELSE NoMessage

\* deploy.mjs lines 49-104: the argument is checked first, then .env.aws, then UNIQUE_ID
ValidateMjs(arg, aws) ==
  IF arg = "" THEN Message("No environment specified", {})
  ELSE IF arg \notin ValidEnvironments THEN Message("Invalid environment", {arg})
  ELSE IF ~aws.present THEN Message(".env.aws file not found!", {})
  ELSE IF aws.UNIQUE_ID = "" THEN Message("UNIQUE_ID not found in .env.aws", {})
  ELSE NoMessage

\* the script is started with an argument
Start(r) ==
  /\ run[r].pc = "IDLE"
  /\ \A q \in Invocations : q < r => run[q].pc # "IDLE"
  /\ \E sc \in Scripts, arg \in EnvArgs :
       run' = [run EXCEPT ![r] = [IdleRun EXCEPT !.script = sc, !.env = arg, !.pc = "PENDING"]]
  /\ overlap' = (overlap \/ \E q \in Invocations : Active(q))
  /\ UNCHANGED <<envAws, srcConfigs, dist, bucket>>
  /\ UNCHANGED <<cfgVars, cluVars>>

\* argument and operator configuration are checked; names are resolved
Validate(r) ==
  /\ run[r].pc = "PENDING"
  /\ LET e == IF run[r].script = "sh" THEN ValidateSh(run[r].env, envAws)
                                       ELSE ValidateMjs(run[r].env, envAws)
     IN run' = [run EXCEPT ![r] =
                  IF e # NoMessage THEN Fail(r, 1, e)
                  ELSE [run[r] EXCEPT !.pc = "BUILDING",
                                      !.bucketName = BucketName(run[r].env, envAws.UNIQUE_ID)]]
  /\ UNCHANGED <<envAws, srcConfigs, dist, bucket, overlap>>
  /\ UNCHANGED <<cfgVars, cluVars>>

\* a build step that is tried a second time when the build tool fails
BuildWithRetry(r) ==
  /\ run[r].pc = "BUILDING"
  /\ LET invoked == [run[r] EXCEPT !.steps = Append(@, "build")]
     IN \/ /\ dist' = BuildOutput(run[r].env)
           /\ run' = [run EXCEPT ![r] = [invoked EXCEPT !.done = @ \cup {"build"}, !.pc = "CONFIGURING"]]
        \/ /\ dist' \in {dist, NoTree}
           /\ \E st \in FailStatus :
                run' = [run EXCEPT ![r] =
                   IF Count(run[r].steps, "build") = 0
                     THEN invoked
                     ELSE [Abort(r, st, "build") EXCEPT !.steps = invoked.steps]]
  /\ UNCHANGED <<envAws, srcConfigs, bucket, overlap>>
  /\ UNCHANGED <<cfgVars, cluVars>>

\* Step 1: npm run build -- --configuration=production
Build(r) ==
  /\ run[r].pc = "BUILDING"
  /\ LET invoked == [run[r] EXCEPT !.steps = Append(@, "build")]
     IN \/ /\ dist' = BuildOutput(run[r].env)
           /\ run' = [run EXCEPT ![r] = [invoked EXCEPT !.done = @ \cup {"build"}, !.pc = "CONFIGURING"]]
        \/ /\ dist' \in {dist, NoTree}
           /\ \E st \in FailStatus :
                run' = [run EXCEPT ![r] = [Abort(r, st, "build") EXCEPT !.steps = invoked.steps]]
  /\ UNCHANGED <<envAws, srcConfigs, bucket, overlap>>
  /\ UNCHANGED <<cfgVars, cluVars>>

\* Step 2: the environment's configuration document replaces the one in the tree
Configure(r) ==
  /\ run[r].pc = "CONFIGURING"
  /\ LET source == ConfigFile(run[r].env)
         invoked == [run[r] EXCEPT !.steps = Append(@, "copy")]
     IN IF source \notin srcConfigs
          THEN /\ run' = [run EXCEPT ![r] = ConfigNotFound(r)]
               /\ UNCHANGED dist
          ELSE \/ /\ dist # NoTree
                  /\ dist' = [dist EXCEPT ![ConfigPath] = source]
                  /\ run' = [run EXCEPT ![r] = [invoked EXCEPT !.done = @ \cup {"copy"}, !.pc = "PUBLISHING"]]
               \/ /\ \E st \in FailStatus :
                       run' = [run EXCEPT ![r] = [Abort(r, st, "copy") EXCEPT !.steps = invoked.steps]]
                  /\ UNCHANGED dist
  /\ UNCHANGED <<envAws, srcConfigs, bucket, overlap>>
  /\ UNCHANGED <<cfgVars, cluVars>>

\* Step 3: aws s3 sync <tree> s3://<bucket> --delete
Publish(r) ==
  /\ run[r].pc = "PUBLISHING"
  /\ LET invoked == [run[r] EXCEPT !.steps = Append(@, "sync")]
         b == run[r].bucketName
     IN \/ /\ dist # NoTree
           /\ bucket' = [bucket EXCEPT ![b] = Mirror(dist, @)]
           /\ run' = [run EXCEPT ![r] =
                 [invoked EXCEPT !.done = @ \cup {"sync"},
                                 !.pc = IF run[r].env = "prod" THEN "INVALIDATING" ELSE "REPORTING"]]
        \/ /\ bucket' \in {bucket, [bucket EXCEPT ![b] = Overlay(dist, @)]}
           /\ \E st \in FailStatus :
                run' = [run EXCEPT ![r] = [Abort(r, st, "sync") EXCEPT !.steps = invoked.steps]]
  /\ UNCHANGED <<envAws, srcConfigs, dist, overlap>>
  /\ UNCHANGED <<cfgVars, cluVars>>

\* a Step 4 that takes a missing distribution id for an error
InvalidateRequiresId(r) ==
  /\ run[r].pc = "INVALIDATING"
  /\ IF envAws.CLOUDFRONT_DISTRIBUTION_ID = ""
       THEN run' = [run EXCEPT ![r] =
               Fail(r, 1, Message("CloudFront distribution ID not found in .env.aws", {}))]
       ELSE LET invoked ==
                  [run[r] EXCEPT !.steps = Append(@, "invalidate"),
                                 !.request = [distribution |-> envAws.CLOUDFRONT_DISTRIBUTION_ID,
                                              paths |-> InvalidationPaths]]
            IN \/ run' = [run EXCEPT ![r] =
                       [invoked EXCEPT !.done = @ \cup {"invalidate"}, !.inval = "ok", !.pc = "REPORTING"]]
               \/ \E st \in FailStatus :
                    run' = [run EXCEPT ![r] =
                       IF run[r].script = "sh"
                         THEN [Abort(r, st, "invalidate") EXCEPT !.steps = invoked.steps,
                                                                 !.request = invoked.request,
                                                                 !.inval = "failed"]
                         ELSE [invoked EXCEPT !.inval = "failed", !.pc = "REPORTING"]]
  /\ UNCHANGED <<envAws, srcConfigs, dist, bucket, overlap>>
  /\ UNCHANGED <<cfgVars, cluVars>>

\* Step 4 (prod only): aws cloudfront create-invalidation --paths "/*"
Invalidate(r) ==
  /\ run[r].pc = "INVALIDATING"
  /\ IF envAws.CLOUDFRONT_DISTRIBUTION_ID = ""
       THEN run' = [run EXCEPT ![r] = [run[r] EXCEPT !.inval = "skipped", !.pc = "REPORTING"]]
       ELSE LET invoked ==
                  [run[r] EXCEPT !.steps = Append(@, "invalidate"),
                                 !.request = [distribution |-> envAws.CLOUDFRONT_DISTRIBUTION_ID,
                                              paths |-> InvalidationPaths]]
            IN \/ run' = [run EXCEPT ![r] =
                       [invoked EXCEPT !.done = @ \cup {"invalidate"}, !.inval = "ok", !.pc = "REPORTING"]]
               \/ \E st \in FailStatus :
                    run' = [run EXCEPT ![r] =
                       IF run[r].script = "sh"
                         THEN [Abort(r, st, "invalidate") EXCEPT !.steps = invoked.steps,
                                                                 !.request = invoked.request,
                                                                 !.inval = "failed"]
                         ELSE [invoked EXCEPT !.inval = "failed", !.pc = "REPORTING"]]
  /\ UNCHANGED <<envAws, srcConfigs, dist, bucket, overlap>>
  /\ UNCHANGED <<cfgVars, cluVars>>

\* Step 5: "Deployment Successful!", the bucket and the URLs; the script ends
Report(r) ==
  /\ run[r].pc = "REPORTING"
  /\ run' = [run EXCEPT ![r] =
        [run[r] EXCEPT !.steps = Append(@, "report"), !.done = @ \cup {"report"}, !.pc = "DONE", !.exit = 0]]
  /\ UNCHANGED <<envAws, srcConfigs, dist, bucket, overlap>>
  /\ UNCHANGED <<cfgVars, cluVars>>

\* ========================================================================
\* Cleanup script: cleanup-ecs.sh
\* ========================================================================
ENVIRONMENTS == <<"dev", "qa", "staging", "prod">>
Environments == {ENVIRONMENTS[i] : i \in 1..Len(ENVIRONMENTS)}
ECR_REPO == "angular-frontend"

\* the delete functions, in the order main calls them
Phases == <<"services", "clusters", "target-groups", "load-balancers", "log-groups", "ecr">>

\* what the operator sends to the prompt: the characters of a line, and whether
\* the line was ended by a newline (if not, the input ended there)
Line(cs) == [chars |-> cs, newline |-> TRUE]
Unfinished(cs) == [chars |-> cs, newline |-> FALSE]
NoInput == [chars |-> <<"?">>, newline |-> FALSE]
Yes == <<"y", "e", "s">>
Answers ==
  {Line(Yes), Line(<<"n", "o">>), Line(<<>>), Line(<<"y">>), Line(<<"Y", "E", "S">>),
   Line(<<" ", "y", "e", "s">>), Line(<<"y", "e", "s", " ">>), Line(<<"y", "e", "s", "!">>),
   Unfinished(<<>>), Unfinished(Yes)}

\* the characters of $IFS that are white space
IFS == {" ", "\t"}

RECURSIVE StripLeft(_)
StripLeft(cs) == IF cs # <<>> /\ Head(cs) \in IFS THEN StripLeft(Tail(cs)) ELSE cs

RECURSIVE StripRight(_)
StripRight(cs) ==
  IF cs # <<>> /\ cs[Len(cs)] \in IFS THEN StripRight(SubSeq(cs, 1, Len(cs) - 1)) ELSE cs

\* read -p "..." confirm: the line, leading and trailing IFS white space removed,
\* is assigned to the one variable; the status is non-zero when the input ends
\* before a newline (the input set holds no backslash)
Read(input) ==
  [status |-> IF input.newline THEN 0 ELSE 1, value |-> StripRight(StripLeft(input.chars))]

CleanupStart ==
  [pc |-> "CONFIRM", input |-> NoInput, confirm |-> <<>>, exit |-> -1,
   phases |-> <<>>, deletes |-> [p \in {Phases[i] : i \in 1..Len(Phases)} |-> 0], failures |-> 0]

CluInit == cleanup = CleanupStart

\* confirm_deletion: the warning, the prompt and the test of the answer; a
\* failing read ends the script under set -e with read's status
confirm_deletion ==
  /\ cleanup.pc = "CONFIRM"
  /\ \E input \in Answers :
       LET r == Read(input)
           asked == [cleanup EXCEPT !.input = input, !.confirm = r.value]
       IN cleanup' =
            IF r.status # 0 THEN [asked EXCEPT !.pc = "FAILED", !.exit = r.status]
            ELSE IF r.value # Yes THEN [asked EXCEPT !.pc = "CANCELLED", !.exit = 0]
            ELSE [asked EXCEPT !.pc = Phases[1]]
  /\ UNCHANGED <<cfgVars, depVars>>

\* one delete function: for every target the describe call finds, one delete
\* call is issued; a delete call that fails is passed over by "|| true"
DeletePhase(p, targets, next) ==
  /\ cleanup.pc = p
  /\ \E found \in SUBSET targets : \E failing \in SUBSET found :
       /\ cleanup.failures + Cardinality(failing) <= MaxFailures
       /\ cleanup' = [cleanup EXCEPT !.phases = Append(@, p),
                                     !.deletes[p] = Cardinality(found),
                                     !.failures = @ + Cardinality(failing),
                                     !.pc = next]
  /\ UNCHANGED <<cfgVars, depVars>>

delete_ecs_services == DeletePhase("services", Environments, "clusters")

delete_ecs_clusters == DeletePhase("clusters", Environments, "target-groups")

delete_target_groups == DeletePhase("target-groups", Environments, "load-balancers")

delete_load_balancers == DeletePhase("load-balancers", Environments, "log-groups")

delete_log_groups == DeletePhase("log-groups", Environments, "ecr")

delete_ecr_repository == DeletePhase("ecr", {ECR_REPO}, "COMPLETE")

\* main, after the last delete function: "Cleanup complete!", and the script ends
Complete ==
  /\ cleanup.pc = "COMPLETE"
  /\ cleanup' = [cleanup EXCEPT !.pc = "DONE", !.exit = 0]
  /\ UNCHANGED <<cfgVars, depVars>>

\* main: confirm_deletion, then the six delete functions in this order
CluNext ==
  \/ confirm_deletion
  \/ delete_ecs_services
  \/ delete_ecs_clusters
  \/ delete_target_groups
  \/ delete_load_balancers
  \/ delete_log_groups
  \/ delete_ecr_repository
  \/ Complete

DepNext ==
  \E r \in Invocations :
    \/ Start(r)
    \/ Validate(r)
    \/ Build(r)
    \/ Configure(r)
    \/ Publish(r)
    \/ Invalidate(r)
    \/ Report(r)

vars == <<cfgVars, depVars, cluVars>>

Init == CfgInit /\ DepInit /\ CluInit

Next == DepNext

Spec == Init /\ [][Next]_vars

\* one step of a started invocation: a check, a collaborator that returns
\* (with success or with a failure status), or the final report
Step(r) ==
  Validate(r) \/ Build(r) \/ Configure(r) \/ Publish(r) \/ Invalidate(r) \/ Report(r)

\* a started script keeps running: every collaborator it invokes returns and
\* the shell, or the Node.js event loop, goes on to the next statement
SpecFair == Init /\ [][Next]_vars /\ \A r \in Invocations : WF_vars(Step(r))

CfgNext ==
  LoadConfig \/ FetchFails \/ FetchDelivers \/ ConstructApp \/ CallGetConfig \/ CallAccessor

\* the loader runs in the browser: no deploy is in progress
DepQuiet ==
  /\ DepInit
  /\ envAws = [present |-> TRUE, UNIQUE_ID |-> "u1", CLOUDFRONT_DISTRIBUTION_ID |-> "E1"]
  /\ srcConfigs = ConfigFiles

InitConfig == CfgInit /\ DepQuiet /\ CluInit

SpecConfig == InitConfig /\ [][CfgNext]_vars

\* cleanup-ecs.sh is run on its own: no deploy and no loader is in progress
InitCleanup == CfgInit /\ DepQuiet /\ CluInit

SpecCleanup == InitCleanup /\ [][CluNext]_vars

\* ========================================================================
\* Properties of the configuration loader (checked under SpecConfig)
\* ========================================================================

\* C1: getConfig() and every field accessor fail with the "configuration not
\* loaded" error whenever the latest loadConfig() has not resolved (not yet
\* called, still pending, or rejected for any cause); no value is returned.
C1_AccessorsFailUnlessLoaded ==
  (lastCall.op # "" /\ loadStatus # "resolved") =>
     (lastCall.threw /\ lastCall.msg = NotLoadedMessage)

\* C2: the held configuration is either absent (null) or a document that
\* passes validateConfig in full.
C2_HeldConfigAbsentOrValid ==
  Falsy(config) \/ validateConfig(config) = NoError

\* d is valid except that required field f is absent or null
OnlyMissing(d, f) ==
  /\ d.kind = "object"
  /\ d[f].t \in {"undefined", "null"}
  /\ validateConfig([d EXCEPT ![f] = BaseDoc[f]]) = NoError

Settled == loadStatus \in {"resolved", "rejected"}

\* C7 as stated: a document valid but for required field F absent or null makes
\* loadConfig() fail with an error that names F.
C7_RejectionNamesField ==
  \A i \in 1..Len(RequiredFields) :
    (Settled /\ response.kind = "body" /\ OnlyMissing(response.body, RequiredFields[i])) =>
       (loadStatus = "rejected" /\ rejection.field = RequiredFields[i])

\* C7 amended: such a document makes loadConfig() reject with the generic
\* "Failed to load application configuration" error, which names no field; the
\* validation error naming F, and no other field, is the one it logs.
C7_LoggedErrorNamesField ==
  \A i \in 1..Len(RequiredFields) :
    (Settled /\ response.kind = "body" /\ OnlyMissing(response.body, RequiredFields[i])) =>
       /\ loadStatus = "rejected"
       /\ rejection = LoadFailed
       /\ logged = MissingField(RequiredFields[i])

C7_Witness ==
  /\ loadStatus = "rejected"
  /\ response.kind = "body"
  /\ OnlyMissing(response.body, "features")
  /\ response.body.features.t = "null"
  /\ logged.field = "features"

\* a boolean-typed field of d holds a string, all required fields being present
StringForBoolean(d) ==
  /\ d.kind = "object"
  /\ FirstMissing(d, 1) = ""
  /\ \/ d.production.t = "string"
     \/ /\ d.features.t = "object"
        /\ \E k \in {"enableNewCheckout", "enableAnalytics", "enableLogging"} :
             d.features.flags[k].t = "string"

\* C8: a document whose required fields are all present but where a
\* boolean-typed field (production, or a feature flag) holds a string is never
\* accepted: loadConfig() fails.
C8_StringForBooleanRejected ==
  (Settled /\ response.kind = "body" /\ StringForBoolean(response.body)) =>
     loadStatus = "rejected"

\* strings that are not absolute URLs, and strings that are
MalformedUrls == {UrlNot, UrlRelative}
WellFormedUrls == {UrlApi, UrlAuth}

\* the latest load was delivered a document in which every required field is
\* present, and has settled
UrlsDecide ==
  /\ Settled
  /\ response.kind = "body"
  /\ response.body.kind = "object"
  /\ \A f \in {"name", "production", "apiUrl", "authUrl", "features"} :
       response.body[f].t \notin {"undefined", "null"}

RequiredFieldsValid ==
  /\ UrlsDecide
  /\ response.body.apiUrl.t = "string"
  /\ response.body.apiUrl.v \in WellFormedUrls
  /\ response.body.authUrl.t = "string"
  /\ response.body.authUrl.v \in WellFormedUrls

\* the document carries a top-level field, or a feature flag, that
\* EnvironmentConfig does not declare
CarriesExtra(d) ==
  \/ d.buildTag.t # "undefined"
  \/ d.features.t = "object" /\ d.features.flags.extraFlag.t # "undefined"

\* C17: a document whose required fields are all valid and that carries an
\* unrecognized top-level field, or an unrecognized feature flag, loads
\* successfully and is held as delivered, the extra field included.
C17_ExtraFieldsAccepted ==
  (RequiredFieldsValid /\ CarriesExtra(response.body)) =>
     /\ loadStatus = "resolved"
     /\ rejection = NoError
     /\ logged = NoError
     /\ config = response.body

C17_Witness ==
  /\ RequiredFieldsValid
  /\ response.body.buildTag = JStr("r42")
  /\ loadStatus = "resolved"
  /\ config.buildTag = JStr("r42")

\* the step in which the pending loadConfig() rejects
LoadRejects == loadStatus = "pending" /\ loadStatus' = "rejected"

\* C18: every loadConfig() call issues exactly one fetch of CONFIG_PATH; a load
\* that fails (network error, unparsable body, validation error) rejects in
\* the step the failure arrives, issues no further fetch, and installs no
\* default or fallback document: the held configuration stays what it was, or
\* is the very document the fetch delivered.
C18_OneFetchNoFallback ==
  /\ [](fetches = loads)
  /\ [][loads' # loads => (loads' = loads + 1 /\ fetches' = fetches + 1)]_vars
  /\ [][LoadRejects =>
          /\ fetches' = fetches
          /\ loads' = loads
          /\ rejection' = LoadFailed
          /\ \/ config' = config
             \/ response'.kind = "body" /\ config' = response'.body]_vars

C18_Witness ==
  /\ loads = 2
  /\ fetches = 2
  /\ loadStatus = "rejected"
  /\ response.kind = FetchFailed.msg
  /\ config = NoConfig

\* the step in which the App component is constructed
AppConstructed == app.phase # "running" /\ app'.phase = "running"

\* C19: the App component is constructed, calling getConfig(), only once the
\* promise of the loadConfig() made by the APP_INITIALIZER has resolved: not
\* before that call, not while it is pending; when that promise rejects the
\* bootstrap has failed and App is never constructed.
C19_BootstrapGatedOnLoader ==
  /\ [][AppConstructed =>
          /\ loads = 1
          /\ loadStatus = "resolved"
          /\ lastCall'.op = "getConfig"
          /\ ~lastCall'.threw
          /\ lastCall'.cfg = response.body]_vars
  /\ []((loads = 0 \/ (loads = 1 /\ loadStatus = "pending")) => app.phase = "initializing")
  /\ []((loads = 1 /\ loadStatus = "rejected") => app.phase = "failed")
  /\ [][app.phase = "failed" => app'.phase = "failed"]_vars

C19_Witness ==
  /\ app.phase = "running"
  /\ loads = 1
  /\ loadStatus = "resolved"
  /\ app.environment = JStr("production")
  /\ lastCall.op = "getConfig"

\* the latest load resolved, with document D == response.body
Loaded == loadStatus = "resolved" /\ response.kind = "body"

\* the field of the document each operation is documented to return
Returns ==
  [apiUrl |-> "apiUrl", authUrl |-> "authUrl", isProduction |-> "production",
   environmentName |-> "name", features |-> "features"]

\* C21: after loadConfig() resolved with document D, getConfig() returns D
\* unchanged and each accessor returns the corresponding field of D; the valid
\* document whose production and feature flags are all false resolves.
C21_LoadGetRoundTrip ==
  /\ (Loaded /\ lastCall.op # "") =>
        /\ ~lastCall.threw
        /\ lastCall.cfg = response.body
        /\ lastCall.op \in Accessors =>
             lastCall.value = response.body[Returns[lastCall.op]]
  /\ (Settled /\ response.kind = "body" /\ response.body = BaseDoc) => loadStatus = "resolved"

C21_Witness ==
  /\ Loaded
  /\ response.body = BaseDoc
  /\ response.body.production = JBool(FALSE)
  /\ response.body.features.flags.enableLogging = JBool(FALSE)
  /\ lastCall.op = "isProduction"
  /\ lastCall.value = JBool(FALSE)

\* C22: the step that creates the App component calls getConfig(), and leaves
\* App's environment, apiUrl and isProduction equal to the name, apiUrl and
\* production of the configuration that call returned, whatever their values.
C22_AppShowsConfig ==
  [][AppConstructed =>
       /\ lastCall'.op = "getConfig"
       /\ ~lastCall'.threw
       /\ lastCall'.cfg = config
       /\ app'.environment = lastCall'.cfg.name
       /\ app'.apiUrl = lastCall'.cfg.apiUrl
       /\ app'.isProduction = lastCall'.cfg.production]_vars

C22_Witness ==
  /\ app.phase = "running"
  /\ lastCall.op = "getConfig"
  /\ lastCall.cfg.name = JStr("test")
  /\ app.environment = JStr("test")
  /\ app.apiUrl = JChars(UrlApi)
  /\ app.isProduction = JBool(FALSE)

\* name and production of d contradict each other
Mismatched(d) ==
  \/ d.name = JStr("production") /\ d.production = JBool(FALSE)
  \/ d.name = JStr("development") /\ d.production = JBool(TRUE)

\* C23: production is not checked against name: a document with name
\* "production" and production false, or name "development" and production
\* true, its other required fields valid, loads successfully and is held.
C23_NoCrossCheck ==
  (RequiredFieldsValid /\ Mismatched(response.body)) =>
     /\ loadStatus = "resolved"
     /\ logged = NoError
     /\ config = response.body

C23_Witness ==
  /\ RequiredFieldsValid
  /\ response.body.name = JStr("production")
  /\ response.body.production = JBool(FALSE)
  /\ loadStatus = "resolved"
  /\ config.name = JStr("production")
  /\ config.production = JBool(FALSE)

\* C24: while the latest loadConfig() is resolved, the name of the configuration
\* getConfig() returns is one of development, qa, staging, production.
C24_NameInClosedSet ==
  (Loaded /\ lastCall.op = "getConfig") =>
     /\ ~lastCall.threw
     /\ lastCall.cfg.name.t = "string"
     /\ lastCall.cfg.name.v \in EnvironmentType

\* a loadConfig() of this instance has succeeded: the latest one, or the first
\* one, after which the bootstrap went on
HasSucceeded == loadStatus = "resolved" \/ app.phase \in {"initialized", "running"}

\* C26: once a loadConfig() has succeeded, no later step changes the held
\* configuration, a further loadConfig() that fails or that is delivered
\* another document included.
C26_ConfigNeverChanges ==
  [][HasSucceeded => config' = config]_vars

\* the fetch of the latest loadConfig() has not completed
FetchInFlight == loadStatus = "pending" /\ response = NoResponse

\* C28: the loader has no timeout. While the fetch has not completed
\* loadConfig() is neither resolved nor rejected and no failure is logged;
\* during the initializer's load the application has not started and the
\* bootstrap has not failed; and only the completion of the fetch (a body, or an
\* error of the request) ends that state, so a fetch that never completes
\* leaves it for ever.
C28_NoTimeout ==
  /\ [](loadStatus = "pending" =>
         /\ response = NoResponse
         /\ rejection = NoError
         /\ logged = NoError
         /\ loads = 1 => app.phase = "initializing")
  /\ [][(FetchInFlight /\ ~FetchInFlight') =>
          /\ response'.kind # "none"
          /\ loadStatus' \in {"resolved", "rejected"}
          /\ loads' = loads]_vars
  /\ [][(FetchInFlight /\ app'.phase # app.phase) => response'.kind # "none"]_vars

C28_Witness ==
  /\ FetchInFlight
  /\ loads = 1
  /\ app.phase = "initializing"
  /\ lastCall.op = "apiUrl"
  /\ lastCall.threw
  /\ rejection = NoError

\* ========================================================================
\* Properties of the deployment scripts (checked under Spec)
\* ========================================================================
Finished(r) == run[r].pc \in {"DONE", "FAILED"}
Invoked(r, step) == Count(run[r].steps, step) > 0
CoreSteps == {"build", "copy", "sync"}

\* C3: a prod deploy whose build, substitution and publish succeeded and whose
\* CloudFront invalidation call failed still finishes as a success (exit 0),
\* the invalidation being reported as failed; for deploy.sh and deploy.mjs.
C3_InvalidationFailureNotFatal ==
  \A r \in Invocations :
    (run[r].inval = "failed" /\ CoreSteps \subseteq run[r].done) =>
       /\ run[r].pc # "FAILED"
       /\ Finished(r) => run[r].exit = 0

OwnConfigPublished(r) ==
  bucket[run[r].bucketName][ConfigPath] = ConfigFile(run[r].env)

BothSucceeded(r, q) ==
  /\ r # q
  /\ run[r].pc = "DONE"
  /\ run[q].pc = "DONE"
  /\ run[r].env # run[q].env

\* C4 as stated: two invocations for different environments, interleaved in any
\* way, both succeeding, leave in each environment's bucket that environment's
\* own configuration document.
C4_ConcurrentDeploysKeepOwnConfig ==
  \A r, q \in Invocations : BothSucceeded(r, q) => OwnConfigPublished(r)

\* C4 amended: two invocations for different environments run one after the
\* other from the same checkout (the second started after the first ended),
\* both succeeding, leave in each environment's bucket that environment's own
\* configuration document; run concurrently they share the dist tree.
C4_SequentialDeploysKeepOwnConfig ==
  \A r, q \in Invocations : (BothSucceeded(r, q) /\ ~overlap) => OwnConfigPublished(r)

C4_Witness ==
  /\ ~overlap
  /\ BothSucceeded(1, 2)
  /\ run[1].env = "dev"
  /\ run[2].env = "prod"
  /\ OwnConfigPublished(1)
  /\ OwnConfigPublished(2)

\* validation has been passed or has failed
Validated(r) == run[r].pc \notin {"IDLE", "PENDING"}

\* C5: for every argument outside the accepted set, a missing one included,
\* deploy fails with an invalid-environment error and a non-zero exit, and
\* build, sync and invalidation are each invoked zero times.
C5_InvalidEnvironmentRejected ==
  \A r \in Invocations :
    (Validated(r) /\ run[r].env \notin ValidEnvironments) =>
       /\ run[r].pc = "FAILED"
       /\ run[r].exit # 0
       /\ run[r].err.msg \in {"Invalid environment", "No environment specified"}
       /\ run[r].steps = <<>>

StepOrder == <<"build", "copy", "sync", "invalidate", "report">>
StepIndex(step) == CHOOSE i \in 1..Len(StepOrder) : StepOrder[i] = step

\* in one invocation: steps are invoked in the order build, copy, sync,
\* invalidate, report, none twice; sync only after build and copy succeeded;
\* invalidation only after sync succeeded; a failed build, copy or sync is the
\* last step invoked and leaves the invocation FAILED
StepsInOrder(r) ==
  LET st == run[r].steps
  IN /\ \A i \in 1..Len(st) : \A j \in 1..Len(st) :
          i < j => StepIndex(st[i]) < StepIndex(st[j])
     /\ Invoked(r, "copy") => "build" \in run[r].done
     /\ Invoked(r, "sync") => {"build", "copy"} \subseteq run[r].done
     /\ Invoked(r, "invalidate") => CoreSteps \subseteq run[r].done
     /\ Invoked(r, "report") => CoreSteps \subseteq run[r].done
     /\ \A s \in CoreSteps :
          (Invoked(r, s) /\ s \notin run[r].done) =>
             (run[r].pc = "FAILED" /\ st[Len(st)] = s)
     /\ run[r].pc = "FAILED" => run[r].exit # 0

\* C6: the steps of one invocation run strictly in order, each only after the
\* previous one succeeded, and once the invocation is FAILED no step runs.
C6_StepsInOrderAndAbortOnFailure ==
  /\ [](\A r \in Invocations : StepsInOrder(r))
  /\ [][\A r \in Invocations : run[r].pc = "FAILED" => run'[r] = run[r]]_vars

C6_Witness ==
  \E r \in Invocations :
    /\ run[r].pc = "FAILED"
    /\ run[r].steps = <<"build", "copy", "sync">>
    /\ run[r].done = {"build", "copy"}

\* C9: when .env.aws is missing, or UNIQUE_ID is absent or empty in it, the
\* storage sync is never invoked; for deploy.sh and deploy.mjs.
C9_NoPublishWithoutDestination ==
  \A r \in Invocations :
    (~envAws.present \/ envAws.UNIQUE_ID = "") => ~Invoked(r, "sync")

\* C10: the process exits with status 0 if and only if build, substitution and
\* publish all succeeded, whatever the outcome of the invalidation.
C10_ExitZeroIffCoreStepsSucceeded ==
  \A r \in Invocations :
    Finished(r) => (run[r].exit = 0 <=> CoreSteps \subseteq run[r].done)

\* the paths at which a tree or a bucket holds something
Objects(tree) == {p \in Paths : tree[p] # ""}

\* the step in which invocation r's sync succeeds
PublishSucceeds(r) ==
  /\ run[r].pc = "PUBLISHING"
  /\ "sync" \in run'[r].done

\* C11: a successful publish leaves the destination a mirror of the local tree:
\* the bucket holds the tree's content at every path, and an object that was in
\* the bucket before and is not in the tree is gone; so the bucket of an
\* invocation whose sync succeeded holds exactly the built tree's set of paths.
C11_PublishMirrorsTree ==
  /\ [][\A r \in Invocations :
          PublishSucceeds(r) =>
             /\ bucket'[run[r].bucketName] = dist
             /\ Objects(bucket'[run[r].bucketName]) = Objects(dist)]_vars
  /\ [](\A r \in Invocations :
          "sync" \in run[r].done =>
             /\ Objects(bucket[run[r].bucketName]) = Objects(BuiltTree)
             /\ bucket[run[r].bucketName][<<"old.js">>] = "")

C11_Witness ==
  \E r \in Invocations :
    /\ run[r].pc = "DONE"
    /\ OldTree[<<"old.js">>] # ""
    /\ BuiltTree[<<"old.js">>] = ""
    /\ bucket[run[r].bucketName][<<"old.js">>] = ""
    /\ bucket[run[r].bucketName][<<"main.js">>] = "build"

\* C12: the build does not depend on the environment: every successful build
\* step leaves the same tree whatever the argument, and two deploys made one
\* after the other for different environments, both succeeding, leave two
\* buckets that agree at every path other than assets/config/environment.json.
C12_OneBuildManyConfigs ==
  /\ [][\A r \in Invocations :
          (run[r].pc = "BUILDING" /\ "build" \in run'[r].done) => dist' = BuiltTree]_vars
  /\ [](\A r, q \in Invocations :
          (BothSucceeded(r, q) /\ ~overlap) =>
             \A p \in Paths \ {ConfigPath} :
                bucket[run[r].bucketName][p] = bucket[run[q].bucketName][p])

C12_Witness ==
  /\ ~overlap
  /\ BothSucceeded(1, 2)
  /\ run[1].env = "dev"
  /\ run[2].env = "prod"
  /\ bucket[run[1].bucketName][<<"main.js">>] = "build"
  /\ bucket[run[1].bucketName][ConfigPath] # bucket[run[2].bucketName][ConfigPath]

\* the URL path under which the object with this key is served
UrlPath(key) == <<"">> \o key

\* an invalidation path covers a URL path: a final "*" stands for any rest,
\* any other pattern for itself
Covers(pattern, path) ==
  IF pattern # <<>> /\ pattern[Len(pattern)] = "*"
    THEN /\ Len(path) >= Len(pattern)
         /\ SubSeq(path, 1, Len(pattern) - 1) = SubSeq(pattern, 1, Len(pattern) - 1)
    ELSE pattern = path

\* invocation r published and has gone through, or past, Step 4
PastInvalidation(r) == "sync" \in run[r].done /\ run[r].pc # "INVALIDATING"

\* C13: in an invocation whose publish succeeded, a CloudFront invalidation is
\* issued if and only if the environment is prod and CLOUDFRONT_DISTRIBUTION_ID
\* is non-empty; none is ever issued for dev, qa or staging, nor before the
\* publish succeeded; the one issued names the configured distribution and
\* its paths cover /assets/config/environment.json and /index.html.
C13_InvalidationOnlyForProd ==
  \A r \in Invocations :
    /\ PastInvalidation(r) =>
         (Invoked(r, "invalidate") <=>
            (run[r].env = "prod" /\ envAws.CLOUDFRONT_DISTRIBUTION_ID # ""))
    /\ run[r].env # "prod" => (~Invoked(r, "invalidate") /\ run[r].request = NoRequest)
    /\ Invoked(r, "invalidate") <=> run[r].request # NoRequest
    /\ Invoked(r, "invalidate") =>
         /\ "sync" \in run[r].done
         /\ run[r].request.distribution = envAws.CLOUDFRONT_DISTRIBUTION_ID
         /\ \A p \in {ConfigPath, <<"index.html">>} :
              \E pattern \in run[r].request.paths : Covers(pattern, UrlPath(p))

C13_Witness ==
  \E r, q \in Invocations :
    /\ run[r].pc = "DONE"
    /\ run[r].env = "prod"
    /\ Invoked(r, "invalidate")
    /\ run[r].request = [distribution |-> "E1", paths |-> {<<"", "*">>}]
    /\ run[q].pc = "DONE"
    /\ run[q].env = "staging"
    /\ run[q].request = NoRequest

\* invocation r built successfully and found no source document for its environment
SourceMissing(r) ==
  /\ "build" \in run[r].done
  /\ ConfigFile(run[r].env) \notin srcConfigs
  /\ run[r].pc # "CONFIGURING"

\* the path at which the script looked for the source document
ExpectedSource(r) ==
  IF run[r].script = "sh"
    THEN "src/assets/config/" \o ConfigFile(run[r].env)
    ELSE "/checkout/src/assets/config/" \o ConfigFile(run[r].env)

\* the step of invocation r that finds the source document missing changes
\* neither the tree nor any bucket
MissingSourceSubstitutesNothing ==
  \A r \in Invocations :
    (run[r].pc = "CONFIGURING" /\ run'[r] # run[r] /\ ConfigFile(run[r].env) \notin srcConfigs) =>
       (dist' = dist /\ bucket' = bucket)

\* C14 as stated: when the environment's source document is missing after a
\* successful build, deploy fails with a missing-configuration error naming both
\* the environment and the expected source path, substitutes no document, and
\* never invokes publish or invalidation.
C14_MissingConfigNamesEnvironmentAndPath ==
  /\ [](\A r \in Invocations :
          SourceMissing(r) =>
             /\ run[r].pc = "FAILED"
             /\ run[r].err.msg = "Config file not found"
             /\ {run[r].env, ExpectedSource(r)} \subseteq run[r].err.args
             /\ run[r].steps = <<"build">>)
  /\ [][MissingSourceSubstitutesNothing]_vars

\* C14 amended: deploy fails (exit 1) with the "Config file not found" error,
\* which names the expected source path and nothing else (the environment
\* appears only through the file name in that path); the tree and the buckets
\* are left as they were; copy, publish and invalidation are never invoked.
C14_MissingConfigNamesPath ==
  /\ [](\A r \in Invocations :
          SourceMissing(r) =>
             /\ run[r].pc = "FAILED"
             /\ run[r].exit = 1
             /\ run[r].err.msg = "Config file not found"
             /\ run[r].err.args = {ExpectedSource(r)}
             /\ run[r].steps = <<"build">>
             /\ run[r].request = NoRequest)
  /\ [][MissingSourceSubstitutesNothing]_vars

C14_Witness ==
  \E r \in Invocations :
    /\ run[r].script = "mjs"
    /\ run[r].env = "prod"
    /\ SourceMissing(r)
    /\ run[r].pc = "FAILED"
    /\ run[r].err.args = {"/checkout/src/assets/config/environment.production.json"}
    /\ dist[ConfigPath] = "environment.json"
    /\ bucket[run[r].bucketName] = OldTree

\* the environment names of the configuration documents
LongNames == {"development", "qa", "staging", "production"}
\* the arguments the scripts list in their usage text
ShortNames == {"dev", "qa", "staging", "prod"}

\* invocation r was turned away by the check of its argument
EnvironmentRejected(r) ==
  /\ run[r].pc = "FAILED"
  /\ run[r].steps = <<>>
  /\ run[r].err.msg \in {"Invalid environment", "No environment specified"}

\* the check of the argument is reached: deploy.sh looks for .env.aws before it
ArgumentChecked(r) == Validated(r) /\ (run[r].script = "mjs" \/ envAws.present)

\* C15 as stated: deploy gets past the check of its argument if and only if the
\* argument is one of development, qa, staging, production; every other value
\* is rejected with an invalid-environment error.
C15_LongNamesAccepted ==
  \A r \in Invocations :
    ArgumentChecked(r) => (~EnvironmentRejected(r) <=> run[r].env \in LongNames)

\* C15 amended: the closed set is {dev, qa, staging, prod}.  Whenever the check
\* of the argument is reached, deploy gets past it if and only if the argument
\* is in that set, and any other value (development and production among
\* them, and a missing one) is rejected there with the invalid-environment
\* error; in every case an argument outside the set ends the invocation with a
\* non-zero exit before any step, and an argument in the set is never given the
\* invalid-environment error.
C15_ShortNamesAccepted ==
  \A r \in Invocations :
    /\ ArgumentChecked(r) => (~EnvironmentRejected(r) <=> run[r].env \in ShortNames)
    /\ (Validated(r) /\ run[r].env \notin ShortNames) =>
         (run[r].pc = "FAILED" /\ run[r].exit # 0 /\ run[r].steps = <<>>)
    /\ run[r].env \in ShortNames => ~EnvironmentRejected(r)

C15_Witness ==
  \E r, q \in Invocations :
    /\ run[r].env = "production"
    /\ EnvironmentRejected(r)
    /\ run[r].err = Message("Invalid environment", {"production"})
    /\ run[q].env = "prod"
    /\ "build" \in run[q].done

\* the document loadConfig() is given by the bucket of invocation r is the
\* source document of r's environment
LoaderGetsOwnConfig(r) ==
  Served(run[r].bucketName, CONFIG_PATH) = ConfigFile(run[r].env)

SameInputs(r, q) ==
  /\ run[r].script = "sh"
  /\ run[q].script = "mjs"
  /\ run[r].env = run[q].env
  /\ Finished(r)
  /\ Finished(q)
  /\ \A s \in {"build", "copy", "sync", "invalidate"} :
       (Invoked(r, s) /\ Invoked(q, s)) => (s \in run[r].done <=> s \in run[q].done)

\* C25: on the same argument, the same operator configuration and the same
\* collaborator outcomes, deploy.sh and deploy.mjs invoke the same collaborators
\* in the same order and end with the same exit status.
C25_ScriptsAgree ==
  \A r, q \in Invocations :
    SameInputs(r, q) =>
       /\ run[r].steps = run[q].steps
       /\ run[r].exit = run[q].exit

\* the collaborators that reach outside the checkout
Collaborators == {"build", "sync", "invalidate"}

\* C27: in one invocation the build tool, the storage sync and the CDN
\* invalidation are each invoked at most once, and, every invoked collaborator
\* returning, a started run always ends in DONE or FAILED.
C27_NoRetryAndTerminates ==
  /\ [](\A r \in Invocations : \A c \in Collaborators : Count(run[r].steps, c) <= 1)
  /\ \A r \in Invocations : (run[r].pc = "PENDING") ~> Finished(r)

C27_Witness ==
  \E r \in Invocations :
    /\ run[r].pc = "FAILED"
    /\ run[r].script = "sh"
    /\ run[r].steps = <<"build", "copy", "sync", "invalidate">>
    /\ run[r].done = {"build", "copy", "sync"}

\* a prod deploy whose build, substitution and publish succeeded, the operator
\* configuration naming no distribution
ProdWithoutDistribution(r) ==
  /\ run[r].env = "prod"
  /\ {"build", "copy", "sync"} \subseteq run[r].done
  /\ envAws.CLOUDFRONT_DISTRIBUTION_ID = ""

\* C29: a prod deploy whose build, substitution and publish succeeded while
\* CLOUDFRONT_DISTRIBUTION_ID is empty makes no CDN call, passes Step 4 with
\* the "Skipping cache invalidation" warning, never fails, and goes on to
\* finish with exit status 0; for deploy.sh and deploy.mjs.
C29_MissingDistributionSkips ==
  /\ [](\A r \in Invocations :
          ProdWithoutDistribution(r) =>
            /\ run[r].request = NoRequest
            /\ Count(run[r].steps, "invalidate") = 0
            /\ run[r].pc \in {"INVALIDATING", "REPORTING", "DONE"}
            /\ run[r].pc # "INVALIDATING" => run[r].inval = "skipped"
            /\ run[r].pc = "DONE" => run[r].exit = 0)
  /\ \A r \in Invocations :
       ProdWithoutDistribution(r) ~> (run[r].pc = "DONE" /\ run[r].exit = 0)

C29_Witness ==
  \E r \in Invocations :
    /\ ProdWithoutDistribution(r)
    /\ run[r].script = "mjs"
    /\ run[r].pc = "DONE"
    /\ run[r].exit = 0
    /\ run[r].inval = "skipped"
    /\ run[r].steps = <<"build", "copy", "sync", "report">>

\* ========================================================================
\* Properties of the cleanup script (checked under SpecCleanup)
\* ========================================================================
PhaseNames == {Phases[i] : i \in 1..Len(Phases)}

RECURSIVE Sum(_, _)
Sum(f, S) == IF S = {} THEN 0 ELSE LET x == CHOOSE y \in S : TRUE IN f[x] + Sum(f, S \ {x})

\* delete calls issued so far, of all six kinds
DeleteCalls == Sum(cleanup.deletes, PhaseNames)

\* the operator has answered the prompt; the answer is, character for
\* character, yes
Answered == cleanup.input # NoInput
ExactlyYes == cleanup.input.chars = Yes

\* C30: no delete call is issued unless the operator's answer is exactly
\* "yes"; any other answer ends the run with exit 0 and no delete call; after
\* confirmation the delete phases run in the order services, clusters, target
\* groups, load balancers, log groups, ECR repository, and failed delete calls
\* do not keep the later phases from running.
C30_NoDeletionBeforeConfirmation ==
  /\ DeleteCalls > 0 => ExactlyYes
  /\ (Answered /\ ~ExactlyYes) =>
        /\ cleanup.pc = "CANCELLED"
        /\ cleanup.exit = 0
        /\ DeleteCalls = 0
  /\ cleanup.phases = SubSeq(Phases, 1, Len(cleanup.phases))
  /\ cleanup.phases # <<>> => cleanup.pc \in PhaseNames \cup {"COMPLETE", "DONE"}
  /\ cleanup.pc = "DONE" => cleanup.phases = Phases

====
